---- MODULE Spec2Model ----
(***************************************************************************)
(* Model of the asm6502 package of jamulator:                              *)
(*   - Program.Compile (compile.go): the two-pass lowering of a parsed     *)
(*     program into an LLVM module (pass 1 collects labelled data, pass 2  *)
(*     opens basic blocks and wires the nmi/reset/irq entry points);       *)
(*   - Program.Visit / compileInstruction (the flat collector and the      *)
(*     instruction selector with its opcode tables).                       *)
(***************************************************************************)
EXTENDS Integers, Sequences, FiniteSets, TLC

VARIABLES
    ast,      \* p.Ast: the statements the traversal visits, in source order
    offsets,  \* p.offsets: address -> statement occupying it
    c,        \* the Compilation under construction (and its module)
    pc,       \* position of the run inside Program.Compile
    idx,      \* next statement of the running traversal
    fd,       \* state of the output file
    prog,     \* the Program of the flat collector
    fast,     \* the statements the flat collector visits
    fidx      \* next statement of the flat walk

vars == <<ast, offsets, c, pc, idx, fd, prog, fast, fidx>>

(***************************************************************************)
(* Bounds of the model.                                                    *)
(***************************************************************************)
MaxLen == 3
MaxFlatLen == 3
MaxLine == 2

(***************************************************************************)
(* Statement and data item nodes.                                          *)
(***************************************************************************)
IntegerDataItem(v) == [t |-> "IntegerDataItem", v |-> v, s |-> <<>>, LabelName |-> ""]
StringDataItem(s) == [t |-> "StringDataItem", v |-> 0, s |-> s, LabelName |-> ""]
LabelCall(n) == [t |-> "LabelCall", v |-> 0, s |-> <<>>, LabelName |-> n]

LabeledStatement(n) == [kind |-> "LabeledStatement", LabelName |-> n, dataList |-> <<>>]
DataStatement(items) == [kind |-> "DataStatement", LabelName |-> "", dataList |-> items]
DataWordStatement(items) == [kind |-> "DataWordStatement", LabelName |-> "", dataList |-> items]
InstructionNode(k) == [kind |-> k, LabelName |-> "", dataList |-> <<>>]

\* The statement kinds that implement the Compiler interface with a stub.
StubKinds ==
    { "ImmediateInstruction", "ImpliedInstruction",
      "DirectWithLabelIndexedInstruction", "DirectIndexedInstruction",
      "DirectWithLabelInstruction", "DirectInstruction",
      "IndirectXInstruction", "IndirectYInstruction", "IndirectInstruction" }

\* stmt.Offset: statements are laid out one per offset, in source order.
OffsetOf(i) == i - 1

(***************************************************************************)
(* The Compilation after lines 200-210 of Program.Compile.                 *)
(***************************************************************************)
dataStmtMode == 0
compileMode == 1

NoBlock == 0

NewCompilation ==
    [ Warnings |-> <<>>,
      Errors |-> <<>>,
      globals |-> <<>>,        \* c.mod: the data globals, in emission order
      blocks |-> <<>>,         \* c.mainFn: the label-named basic blocks
      entry |-> <<>>,          \* terminators of the Entry block
      hasEntry |-> FALSE,
      labeledData |-> <<>>,    \* label name -> index into globals
      currentValue |-> <<>>,
      currentLabel |-> "",
      mode |-> dataStmtMode,
      currentBlock |-> NoBlock,
      nmiLabelName |-> "",
      resetLabelName |-> "",
      irqLabelName |-> "",
      nmiBlock |-> NoBlock,
      resetBlock |-> NoBlock,
      irqBlock |-> NoBlock ]

(***************************************************************************)
(* Pass 1: the data statements.                                            *)
(***************************************************************************)
\* Faulty variant: the integer item is written without the conversion to a byte.
ItemBytesUntruncated(item) ==
    IF item.t = "IntegerDataItem" THEN << item.v >>
    ELSE IF item.t = "StringDataItem" THEN item.s
    ELSE <<>>

\* byte(*v) of an integer item, the bytes of a string item; any other item
\* matches no case of the switch.
ItemBytes(item) ==
    IF item.t = "IntegerDataItem" THEN << item.v % 256 >>
    ELSE IF item.t = "StringDataItem" THEN item.s
    ELSE <<>>

RECURSIVE WriteItems(_, _)
WriteItems(buf, items) ==
    IF items = <<>> THEN buf
    ELSE WriteItems(buf \o ItemBytes(Head(items)), Tail(items))

\* Faulty variant: the data without a label is warned about and written all the same.
dataAddStmtKeepsData(cc, stmt, i) ==
    IF cc.currentLabel = ""
    THEN [cc EXCEPT !.Warnings = Append(@, <<"trashing data at", OffsetOf(i)>>),
                    !.currentValue = WriteItems(@, stmt.dataList)]
    ELSE [cc EXCEPT !.currentValue = WriteItems(@, stmt.dataList)]

dataAddStmt(cc, stmt, i) ==
    IF cc.currentLabel = ""
    THEN [cc EXCEPT !.Warnings = Append(@, <<"trashing data at", OffsetOf(i)>>)]
    ELSE [cc EXCEPT !.currentValue = WriteItems(@, stmt.dataList)]

dataStop(cc) ==
    IF cc.currentLabel = "" THEN cc
    ELSE IF Len(cc.currentValue) = 0 THEN cc
    ELSE LET strGlobal == Len(cc.globals) + 1 IN
         [cc EXCEPT
            !.globals = Append(@, [name |-> cc.currentLabel, init |-> cc.currentValue]),
            !.labeledData = (cc.currentLabel :> strGlobal) @@ @,
            !.currentLabel = ""]

dataStart(cc, stmt) ==
    [cc EXCEPT !.currentLabel = stmt.LabelName, !.currentValue = <<>>]

visitForDataStmts(cc, n, i) ==
    IF n.kind = "DataStatement" THEN dataAddStmt(cc, n, i)
    ELSE IF n.kind = "LabeledStatement" THEN dataStart(dataStop(cc), n)
    ELSE dataStop(cc)

(***************************************************************************)
(* Pass 2: basic blocks.                                                   *)
(***************************************************************************)
Br(target) == [op |-> "br", target |-> target]
Unreachable == [op |-> "unreachable", target |-> NoBlock]

\* builder.SetInsertPointAtEnd(b); builder.Create...: append to block b.
Emit(cc, b, ins) == [cc EXCEPT !.blocks[b].term = Append(@, ins)]

StubCompile(cc, n) ==
    [cc EXCEPT !.Errors = Append(@, n.kind \o " lacks Compile() implementation")]

\* Faulty variant: the irq block is recorded but left open and current.
openBlockIrqStaysOpen(cc, s) ==
    LET bb == Len(cc.blocks) + 1
        c1 == [cc EXCEPT !.blocks = Append(@, [name |-> s.LabelName, term |-> <<>>])]
        c2 == IF c1.currentBlock # NoBlock THEN Emit(c1, c1.currentBlock, Br(bb)) ELSE c1
        c3 == [c2 EXCEPT !.currentBlock = bb]
    IN  IF s.LabelName = c3.nmiLabelName
        THEN [Emit(c3, bb, Unreachable) EXCEPT !.nmiBlock = bb, !.currentBlock = NoBlock]
        ELSE IF s.LabelName = c3.resetLabelName
        THEN [c3 EXCEPT !.resetBlock = bb]
        ELSE IF s.LabelName = c3.irqLabelName
        THEN [c3 EXCEPT !.irqBlock = bb]
        ELSE c3

\* Faulty variant: the nmi block is closed but stays the current block.
openBlockNmiStaysCurrent(cc, s) ==
    LET bb == Len(cc.blocks) + 1
        c1 == [cc EXCEPT !.blocks = Append(@, [name |-> s.LabelName, term |-> <<>>])]
        c2 == IF c1.currentBlock # NoBlock THEN Emit(c1, c1.currentBlock, Br(bb)) ELSE c1
        c3 == [c2 EXCEPT !.currentBlock = bb]
    IN  IF s.LabelName = c3.nmiLabelName
        THEN [Emit(c3, bb, Unreachable) EXCEPT !.nmiBlock = bb]
        ELSE IF s.LabelName = c3.resetLabelName
        THEN [c3 EXCEPT !.resetBlock = bb]
        ELSE IF s.LabelName = c3.irqLabelName
        THEN [Emit(c3, bb, Unreachable) EXCEPT !.irqBlock = bb, !.currentBlock = NoBlock]
        ELSE c3

\* Lines 155-175: the new block, the branch into it, the vector targets.
openBlock(cc, s) ==
    LET bb == Len(cc.blocks) + 1
        c1 == [cc EXCEPT !.blocks = Append(@, [name |-> s.LabelName, term |-> <<>>])]
        c2 == IF c1.currentBlock # NoBlock THEN Emit(c1, c1.currentBlock, Br(bb)) ELSE c1
        c3 == [c2 EXCEPT !.currentBlock = bb]
    IN  IF s.LabelName = c3.nmiLabelName
        THEN [Emit(c3, bb, Unreachable) EXCEPT !.nmiBlock = bb, !.currentBlock = NoBlock]
        ELSE IF s.LabelName = c3.resetLabelName
        THEN [c3 EXCEPT !.resetBlock = bb]
        ELSE IF s.LabelName = c3.irqLabelName
        THEN [Emit(c3, bb, Unreachable) EXCEPT !.irqBlock = bb, !.currentBlock = NoBlock]
        ELSE c3

\* Faulty variant: the label is lowered without asking whether it is data.
LabeledStatementCompileNoSkip(cc, s) == openBlock(cc, s)

LabeledStatementCompile(cc, s) ==
    IF s.LabelName \in DOMAIN cc.labeledData THEN cc
    ELSE openBlock(cc, s)

\* Faulty variant: only the first two stubs exist; other statements are passed over.
visitForCompileTwoStubs(cc, n) ==
    IF n.kind = "LabeledStatement" THEN LabeledStatementCompile(cc, n)
    ELSE IF n.kind \in {"ImmediateInstruction", "ImpliedInstruction"} THEN StubCompile(cc, n)
    ELSE cc

visitForCompile(cc, n) ==
    IF n.kind = "LabeledStatement" THEN LabeledStatementCompile(cc, n)
    ELSE IF n.kind \in StubKinds THEN StubCompile(cc, n)
    ELSE cc

(***************************************************************************)
(* The entry points.                                                       *)
(***************************************************************************)
NmiAddr == 65530
ResetAddr == 65532
IrqAddr == 65534
VectorAddrs == {NmiAddr, ResetAddr, IrqAddr}

\* The formats are given no operand, so the address prints as %!x(MISSING).
setUpEntryPoint(cc, p, addr, field) ==
    IF addr \notin DOMAIN p
    THEN [cc EXCEPT !.Errors = Append(@, "Missing 0x%!x(MISSING) entry point")]
    ELSE IF p[addr].kind # "DataWordStatement"
    THEN [cc EXCEPT !.Errors =
            Append(@, "Entry point at 0x%!x(MISSING) must be a dc.w")]
    ELSE IF p[addr].dataList[1].t # "LabelCall"
    THEN [cc EXCEPT !.Errors =
            Append(@, "Entry point at 0x%!x(MISSING) must be a dc.w with a label")]
    ELSE [cc EXCEPT ![field] = p[addr].dataList[1].LabelName]

\* Lines 213-242: the module's functions and Entry block, the three vector
\* lookups (none of them stops the others or the run), the switch to pass 2.
setUpEntryPoints(cc, p) ==
    LET c0 == [cc EXCEPT !.hasEntry = TRUE]
        c1 == setUpEntryPoint(c0, p, NmiAddr, "nmiLabelName")
        c2 == setUpEntryPoint(c1, p, ResetAddr, "resetLabelName")
        c3 == setUpEntryPoint(c2, p, IrqAddr, "irqLabelName")
    IN  [c3 EXCEPT !.mode = compileMode]

\* Faulty variant: the last open block is left as it is.
closeOffNothing(cc) == cc

\* Lines 245-249.
closeOff(cc) ==
    IF cc.currentBlock # NoBlock THEN Emit(cc, cc.currentBlock, Unreachable) ELSE cc

\* Faulty variant: the nmi block is not asked for.
missingEntryPointNoNmi(cc) ==
    IF cc.resetBlock = NoBlock THEN "missing reset entry point"
    ELSE IF cc.irqBlock = NoBlock THEN "missing irq entry point"
    ELSE ""

\* Lines 251-263: the first unset block, "" when all three are set.
missingEntryPoint(cc) ==
    IF cc.nmiBlock = NoBlock THEN "missing nmi entry point"
    ELSE IF cc.resetBlock = NoBlock THEN "missing reset entry point"
    ELSE IF cc.irqBlock = NoBlock THEN "missing irq entry point"
    ELSE ""

\* Faulty variant: the Entry block is wired to the nmi block.
entryTargetNmi(cc) == cc.nmiBlock

\* Line 267: the block the Entry block branches to.
entryTarget(cc) == cc.resetBlock

(***************************************************************************)
(* Program.Compile as a sequence of steps.                                 *)
(***************************************************************************)
Visit(cc, n, i) ==
    IF cc.mode = dataStmtMode THEN visitForDataStmts(cc, n, i)
    ELSE visitForCompile(cc, n)

FlatIdle == UNCHANGED <<prog, fast, fidx>>

\* p.Ast.Ast(c) of line 211, one statement at a time.
Pass1Visit ==
    /\ pc = "pass1" /\ idx <= Len(ast)
    /\ c' = Visit(c, ast[idx], idx)
    /\ idx' = idx + 1
    /\ UNCHANGED <<ast, offsets, pc, fd>> /\ FlatIdle

SetUpEntryPoints ==
    /\ pc = "pass1" /\ idx > Len(ast)
    /\ c' = setUpEntryPoints(c, offsets)
    /\ pc' = "pass2" /\ idx' = 1
    /\ UNCHANGED <<ast, offsets, fd>> /\ FlatIdle

\* p.Ast.Ast(c) of line 243, one statement at a time.
Pass2Visit ==
    /\ pc = "pass2" /\ idx <= Len(ast)
    /\ c' = Visit(c, ast[idx], idx)
    /\ idx' = idx + 1
    /\ UNCHANGED <<ast, offsets, pc, fd>> /\ FlatIdle

CloseOff ==
    /\ pc = "pass2" /\ idx > Len(ast)
    /\ c' = closeOff(c)
    /\ pc' = "hookup"
    /\ UNCHANGED <<ast, offsets, idx, fd>> /\ FlatIdle

\* Faulty variant: the missing-block error is appended without returning.
HookUpEntryPointsNoReturn ==
    /\ pc = "hookup"
    /\ c' = [c EXCEPT
               !.Errors = IF missingEntryPoint(c) # ""
                          THEN Append(@, missingEntryPoint(c)) ELSE @,
               !.entry = Append(@, Br(entryTarget(c)))]
    /\ pc' = "verify"
    /\ UNCHANGED <<ast, offsets, idx, fd>> /\ FlatIdle

\* Lines 251-267.
HookUpEntryPoints ==
    /\ pc = "hookup"
    /\ IF missingEntryPoint(c) # ""
       THEN /\ c' = [c EXCEPT !.Errors = Append(@, missingEntryPoint(c))]
            /\ pc' = "done"
       ELSE /\ c' = [c EXCEPT !.entry = Append(@, Br(entryTarget(c)))]
            /\ pc' = "verify"
    /\ UNCHANGED <<ast, offsets, idx, fd>> /\ FlatIdle

\* A call into LLVM or the operating system either succeeds or returns an
\* error, which Compile appends before it returns.
Returns(ok, next, err, fdOk) ==
    IF ok
    THEN /\ pc' = next /\ fd' = fdOk /\ c' = c
    ELSE /\ pc' = "done" /\ fd' = fd /\ c' = [c EXCEPT !.Errors = Append(@, err)]

\* Lines 269-273.
VerifyModule ==
    /\ pc = "verify"
    /\ \E ok \in BOOLEAN : Returns(ok, "jit", "VerifyModule error", fd)
    /\ UNCHANGED <<ast, offsets, idx>> /\ FlatIdle

\* Lines 275-293.
NewJITCompiler ==
    /\ pc = "jit"
    /\ \E ok \in BOOLEAN : Returns(ok, "create", "NewJITCompiler error", fd)
    /\ UNCHANGED <<ast, offsets, idx>> /\ FlatIdle

\* Lines 295-299.
CreateFile ==
    /\ pc = "create"
    /\ \E ok \in BOOLEAN : Returns(ok, "write", "os.Create error", "created")
    /\ UNCHANGED <<ast, offsets, idx>> /\ FlatIdle

\* Lines 301-305.
WriteBitcodeToFile ==
    /\ pc = "write"
    /\ \E ok \in BOOLEAN : Returns(ok, "close", "WriteBitcodeToFile error", "written")
    /\ UNCHANGED <<ast, offsets, idx>> /\ FlatIdle

\* Lines 307-313.
CloseFile ==
    /\ pc = "close"
    /\ \E ok \in BOOLEAN : Returns(ok, "done", "Close error", "closed")
    /\ UNCHANGED <<ast, offsets, idx>> /\ FlatIdle

Next ==
    \/ Pass1Visit
    \/ SetUpEntryPoints
    \/ Pass2Visit
    \/ CloseOff
    \/ HookUpEntryPoints
    \/ VerifyModule
    \/ NewJITCompiler
    \/ CreateFile
    \/ WriteBitcodeToFile
    \/ CloseFile

(***************************************************************************)
(* The programs the runs are given.                                        *)
(***************************************************************************)
Labels == {"a", "b", "c"}

SeqsUpTo(S, n) == UNION { [1..k -> S] : k \in 0..n }

LabelStmts == { LabeledStatement(l) : l \in Labels }

Stmts ==
    LabelStmts \cup
    { DataStatement(<<IntegerDataItem(300), StringDataItem(<<104, 105>>)>>),
      DataStatement(<<IntegerDataItem(65)>>),
      DataStatement(<<>>),
      DataWordStatement(<<LabelCall("a")>>),
      InstructionNode("ImpliedInstruction") }

\* What may occupy a vector address: a dc.w naming a label, a dc.w holding a
\* number, a dc.b, or nothing.
NoStmt == [kind |-> "none", LabelName |-> "", dataList |-> <<>>]
VecLabelStmts == { DataWordStatement(<<LabelCall(l)>>) : l \in Labels }
VecStmts ==
    VecLabelStmts \cup
    { DataWordStatement(<<IntegerDataItem(0)>>), DataStatement(<<IntegerDataItem(0)>>), NoStmt }

MkOffsets(f) == [a \in {x \in VectorAddrs : f[x] # NoStmt} |-> f[a]]

InitCompile(asts, offs) ==
    /\ ast \in asts
    /\ offsets \in offs
    /\ c = NewCompilation
    /\ pc = "pass1"
    /\ idx = 1
    /\ fd = "none"
    /\ prog = <<>> /\ fast = <<>> /\ fidx = 1

Init ==
    InitCompile(SeqsUpTo(Stmts, MaxLen),
                { MkOffsets(f) : f \in [VectorAddrs -> VecLabelStmts] })

Spec == Init /\ [][Next]_vars

\* Programs for the entry-point lookups: every kind of occupant of every
\* vector address.
EntryStmts ==
    LabelStmts \cup
    { DataStatement(<<IntegerDataItem(65)>>), InstructionNode("ImpliedInstruction") }

InitEntry ==
    InitCompile(SeqsUpTo(EntryStmts, MaxLen),
                { MkOffsets(f) : f \in [VectorAddrs -> VecStmts] })

SpecEntry == InitEntry /\ [][Next]_vars

\* Programs with every kind of instruction statement.
StubStmts ==
    LabelStmts \cup
    { DataStatement(<<IntegerDataItem(65)>>) } \cup
    { InstructionNode(k) : k \in StubKinds }

InitStub ==
    InitCompile(SeqsUpTo(StubStmts, MaxLen),
                { (NmiAddr :> DataWordStatement(<<LabelCall("a")>>)) @@
                  (ResetAddr :> DataWordStatement(<<LabelCall("b")>>)) @@
                  (IrqAddr :> DataWordStatement(<<LabelCall("c")>>)) })

SpecStub == InitStub /\ [][Next]_vars

(***************************************************************************)
(* The opcode tables and the instruction selector.                         *)
(***************************************************************************)
impliedOpcode ==
    ("brk" :> 0) @@ ("clc" :> 24) @@ ("cld" :> 216) @@ ("cli" :> 88) @@
    ("clv" :> 184) @@ ("dex" :> 202) @@ ("dey" :> 136) @@ ("inx" :> 232) @@
    ("iny" :> 200) @@ ("nop" :> 234) @@ ("pha" :> 72) @@ ("php" :> 8) @@
    ("pla" :> 104) @@ ("plp" :> 40) @@ ("rti" :> 64) @@ ("rts" :> 96) @@
    ("sec" :> 56) @@ ("sed" :> 248) @@ ("sei" :> 120) @@ ("tax" :> 170) @@
    ("tay" :> 168) @@ ("tsx" :> 186) @@ ("txa" :> 138) @@ ("txs" :> 154) @@
    ("tya" :> 152)

immediateOpcode ==
    ("adc" :> 105) @@ ("and" :> 41) @@ ("cmp" :> 201) @@ ("cpx" :> 224) @@
    ("cpy" :> 192) @@ ("eor" :> 73) @@ ("lda" :> 169) @@ ("ldx" :> 162) @@
    ("ldy" :> 160) @@ ("ora" :> 9) @@ ("sbc" :> 233)

absIndexedXOpcode ==
    ("adc" :> 125) @@ ("and" :> 61) @@ ("asl" :> 30) @@ ("cmp" :> 221) @@
    ("dec" :> 222) @@ ("eor" :> 93) @@ ("inc" :> 254) @@ ("lda" :> 189) @@
    ("ldy" :> 188) @@ ("lsr" :> 94) @@ ("ora" :> 29) @@ ("rol" :> 62) @@
    ("ror" :> 126) @@ ("sbc" :> 253) @@ ("sta" :> 157)

absIndexedYOpcode ==
    ("adc" :> 121) @@ ("and" :> 57) @@ ("cmp" :> 217) @@ ("eor" :> 89) @@
    ("lda" :> 185) @@ ("ldx" :> 190) @@ ("ora" :> 25) @@ ("sbc" :> 249) @@
    ("sta" :> 153)

\* A text is the sequence of its characters.
UpperChars ==
    << "A", "B", "C", "D", "E", "F", "G", "H", "I", "J", "K", "L", "M",
       "N", "O", "P", "Q", "R", "S", "T", "U", "V", "W", "X", "Y", "Z" >>
LowerChars ==
    << "a", "b", "c", "d", "e", "f", "g", "h", "i", "j", "k", "l", "m",
       "n", "o", "p", "q", "r", "s", "t", "u", "v", "w", "x", "y", "z" >>

\* strings.ToLower
ToLower(text) ==
    [ i \in 1..Len(text) |->
        IF \E k \in 1..Len(UpperChars) : UpperChars[k] = text[i]
        THEN LowerChars[CHOOSE k \in 1..Len(UpperChars) : UpperChars[k] = text[i]]
        ELSE text[i] ]

\* The text as a string, as the tables and the messages hold it.
RECURSIVE Str(_)
Str(text) == IF text = <<>> THEN "" ELSE Head(text) \o Str(Tail(text))

AssignStatement(name, value) ==
    [kind |-> "AssignStatement", VarName |-> name, Value |-> value,
     OpName |-> <<>>, RegisterName |-> <<>>, Line |-> 0]
FlatInstruction(k, op, reg) ==
    [kind |-> k, VarName |-> "", Value |-> 0,
     OpName |-> op, RegisterName |-> reg, Line |-> 0]
FlatOther ==
    [kind |-> "LabeledStatement", VarName |-> "", Value |-> 0,
     OpName |-> <<>>, RegisterName |-> <<>>, Line |-> 0]

\* The instruction statement kinds compileInstruction has a case for.
SelectorKinds ==
    {"ImpliedInstruction", "ImmediateInstruction", "AbsoluteWithLabelIndexedInstruction"}

\* The two results of compileInstruction: (instruction, nil) and (nil, error).
Selected(stmt, opcode, size) ==
    [i |-> << [StatementAst |-> stmt, OpCode |-> opcode, OpSize |-> size] >>, err |-> <<>>]
Failed(fmt, line, opName) ==
    [i |-> <<>>, err |-> << [fmt |-> fmt, Line |-> line, OpName |-> opName] >>]

\* Faulty variant: the table is asked for the mnemonic as written.
LookupCaseSensitive(table, stmt, size, fmt) ==
    LET opName == Str(stmt.OpName)
    IN  IF opName \notin DOMAIN table
        THEN Failed(fmt, stmt.Line, opName)
        ELSE Selected(stmt, table[opName], size)

Lookup(table, stmt, size, fmt) ==
    LET opName == Str(stmt.OpName)
        lowerOpName == Str(ToLower(stmt.OpName))
    IN  IF lowerOpName \notin DOMAIN table
        THEN Failed(fmt, stmt.Line, opName)
        ELSE Selected(stmt, table[lowerOpName], size)

\* Faulty variant: the register name is compared as written.
compileInstructionRegAsWritten(stmt) ==
    IF stmt.kind = "ImpliedInstruction"
    THEN Lookup(impliedOpcode, stmt, 1, "Line %d: Unrecognized implied instruction: %s")
    ELSE IF stmt.kind = "ImmediateInstruction"
    THEN Lookup(immediateOpcode, stmt, 2, "Line %d: Unrecognized immediate instruction: %s")
    ELSE LET regName == Str(stmt.RegisterName) IN
         IF regName = "x"
         THEN Lookup(absIndexedXOpcode, stmt, 3,
                     "Line %d: Unrecognized absolute, X instruction: %s")
         ELSE IF regName = "y"
         THEN Lookup(absIndexedYOpcode, stmt, 3,
                     "Line %d: Unrecognized absolute, Y instruction: %s")
         ELSE Failed("Line %d: Register argument must be X or Y", stmt.Line, "")

compileInstruction(stmt) ==
    IF stmt.kind = "ImpliedInstruction"
    THEN Lookup(impliedOpcode, stmt, 1, "Line %d: Unrecognized implied instruction: %s")
    ELSE IF stmt.kind = "ImmediateInstruction"
    THEN Lookup(immediateOpcode, stmt, 2, "Line %d: Unrecognized immediate instruction: %s")
    ELSE LET lowerRegName == Str(ToLower(stmt.RegisterName)) IN
         IF lowerRegName = "x"
         THEN Lookup(absIndexedXOpcode, stmt, 3,
                     "Line %d: Unrecognized absolute, X instruction: %s")
         ELSE IF lowerRegName = "y"
         THEN Lookup(absIndexedYOpcode, stmt, 3,
                     "Line %d: Unrecognized absolute, Y instruction: %s")
         ELSE Failed("Line %d: Register argument must be X or Y", stmt.Line, "")

(***************************************************************************)
(* The flat collector.                                                     *)
(***************************************************************************)
NewProgram == [Variables |-> <<>>, Labels |-> <<>>, Instructions |-> <<>>, Errors |-> <<>>]

\* Faulty variant: nothing is selected once an error has been recorded.
ProgramVisitStopsOnError(p, n) ==
    IF n.kind = "AssignStatement"
    THEN [p EXCEPT !.Variables = (n.VarName :> n.Value) @@ @]
    ELSE IF n.kind \in SelectorKinds /\ p.Errors = <<>>
    THEN LET r == compileInstruction(n) IN
         IF r.err # <<>> THEN [p EXCEPT !.Errors = Append(@, r.err[1])]
         ELSE IF r.i # <<>> THEN [p EXCEPT !.Instructions = Append(@, r.i[1])]
         ELSE p
    ELSE p

\* Faulty variant: a name that is already assigned keeps its value.
ProgramVisitKeepsFirst(p, n) ==
    IF n.kind = "AssignStatement"
    THEN [p EXCEPT !.Variables = @ @@ (n.VarName :> n.Value)]
    ELSE IF n.kind \in SelectorKinds
    THEN LET r == compileInstruction(n) IN
         IF r.err # <<>> THEN [p EXCEPT !.Errors = Append(@, r.err[1])]
         ELSE IF r.i # <<>> THEN [p EXCEPT !.Instructions = Append(@, r.i[1])]
         ELSE p
    ELSE p

ProgramVisit(p, n) ==
    IF n.kind = "AssignStatement"
    THEN [p EXCEPT !.Variables = (n.VarName :> n.Value) @@ @]
    ELSE IF n.kind \in SelectorKinds
    THEN LET r == compileInstruction(n) IN
         IF r.err # <<>> THEN [p EXCEPT !.Errors = Append(@, r.err[1])]
         ELSE IF r.i # <<>> THEN [p EXCEPT !.Instructions = Append(@, r.i[1])]
         ELSE p
    ELSE p

CompileIdle == UNCHANGED <<ast, offsets, c, pc, idx, fd>>

\* ast.Ast(p) of ToProgram, one statement at a time.
FlatVisit ==
    /\ pc = "flat" /\ fidx <= Len(fast)
    /\ prog' = ProgramVisit(prog, fast[fidx])
    /\ fidx' = fidx + 1
    /\ UNCHANGED fast /\ CompileIdle

NextFlat == FlatVisit

\* Statements are numbered by their source line.
WithLines(stmts) == [i \in 1..Len(stmts) |-> [stmts[i] EXCEPT !.Line = i]]

InitFlat(fasts) ==
    /\ fast \in fasts
    /\ prog = NewProgram
    /\ fidx = 1
    /\ pc = "flat"
    /\ ast = <<>> /\ offsets = <<>> /\ c = NewCompilation /\ idx = 1 /\ fd = "none"

FlatStmts ==
    { AssignStatement("x", 1), AssignStatement("x", 2), AssignStatement("y", 1),
      FlatOther,
      FlatInstruction("ImpliedInstruction", <<"n", "o", "p">>, <<>>),
      FlatInstruction("ImpliedInstruction", <<"L", "D", "A">>, <<>>),
      FlatInstruction("ImmediateInstruction", <<"L", "d", "a">>, <<>>),
      FlatInstruction("ImmediateInstruction", <<"s", "t", "a">>, <<>>),
      FlatInstruction("AbsoluteWithLabelIndexedInstruction", <<"l", "d", "a">>, <<"X">>),
      FlatInstruction("AbsoluteWithLabelIndexedInstruction", <<"l", "d", "y">>, <<"y">>),
      FlatInstruction("AbsoluteWithLabelIndexedInstruction", <<"l", "d", "a">>, <<"z">>) }

InitFlatWalk == InitFlat({ WithLines(s) : s \in SeqsUpTo(FlatStmts, MaxFlatLen) })

SpecFlat == InitFlatWalk /\ [][NextFlat]_vars

\* One statement of every mnemonic of the tables (and two of none), in every
\* letter case, in every addressing mode.

\* The mnemonics as texts.
MnemonicTexts ==
    {
      <<"b", "r", "k">>, <<"c", "l", "c">>, <<"c", "l", "d">>,
      <<"c", "l", "i">>, <<"c", "l", "v">>, <<"d", "e", "x">>,
      <<"d", "e", "y">>, <<"i", "n", "x">>, <<"i", "n", "y">>,
      <<"n", "o", "p">>, <<"p", "h", "a">>, <<"p", "h", "p">>,
      <<"p", "l", "a">>, <<"p", "l", "p">>, <<"r", "t", "i">>,
      <<"r", "t", "s">>, <<"s", "e", "c">>, <<"s", "e", "d">>,
      <<"s", "e", "i">>, <<"t", "a", "x">>, <<"t", "a", "y">>,
      <<"t", "s", "x">>, <<"t", "x", "a">>, <<"t", "x", "s">>,
      <<"t", "y", "a">>, <<"a", "d", "c">>, <<"a", "n", "d">>,
      <<"c", "m", "p">>, <<"c", "p", "x">>, <<"c", "p", "y">>,
      <<"e", "o", "r">>, <<"l", "d", "a">>, <<"l", "d", "x">>,
      <<"l", "d", "y">>, <<"o", "r", "a">>, <<"s", "b", "c">>,
      <<"a", "s", "l">>, <<"d", "e", "c">>, <<"i", "n", "c">>,
      <<"l", "s", "r">>, <<"r", "o", "l">>, <<"r", "o", "r">>,
      <<"s", "t", "a">>, <<"j", "m", "p">>, <<"x", "y", "z">> }

\* The texts that differ from the lower-case text only in letter case.
Cased(lower) ==
    { [ i \in 1..Len(lower) |->
          IF i \in U
          THEN UpperChars[CHOOSE k \in 1..Len(LowerChars) : LowerChars[k] = lower[i]]
          ELSE lower[i] ] :
      U \in SUBSET (1..Len(lower)) }

SelectStmts ==
    { AssignStatement("x", 1), FlatOther } \cup
    UNION { UNION { { FlatInstruction("ImpliedInstruction", op, <<>>),
                      FlatInstruction("ImmediateInstruction", op, <<>>) } \cup
                    { FlatInstruction("AbsoluteWithLabelIndexedInstruction", op, <<r>>) :
                        r \in {"x", "X", "y", "Y", "z", "a"} } :
                    op \in Cased(m) } :
            m \in MnemonicTexts }

InitSelect == InitFlat({ <<[s EXCEPT !.Line = l]>> : s \in SelectStmts, l \in 1..MaxLine })

SpecSelect == InitSelect /\ [][NextFlat]_vars

(***************************************************************************)
(* Properties.                                                             *)
(***************************************************************************)
IsLabel(i) == ast[i].kind = "LabeledStatement"
IsData(i) == ast[i].kind = "DataStatement"
AfterPass2 == {"hookup", "verify", "jit", "create", "write", "close", "done"}
AfterHookUp == {"verify", "jit", "create", "write", "close", "done"}
InErrors(msgs) == \E i \in 1..Len(c.Errors) : c.Errors[i] \in msgs

ResolverErrors ==
    { "Missing 0x%!x(MISSING) entry point",
      "Entry point at 0x%!x(MISSING) must be a dc.w",
      "Entry point at 0x%!x(MISSING) must be a dc.w with a label" }
MissingBlockErrors ==
    { "missing nmi entry point", "missing reset entry point", "missing irq entry point" }

\* C1: once a vector lookup has failed (its error is recorded), lowering
\* aborts: no statement is visited in pass 2 and no basic block is created.
C1_AbortsBeforePass2 ==
    InErrors(ResolverErrors) =>
        /\ c.blocks = <<>>
        /\ ~(pc = "pass2" /\ idx > 1)

\* C2: in pass 1, visiting a statement that is neither data nor label and that
\* ends a run "label L, N >= 1 data declarations" holding at least one byte
\* appends exactly one global, named L, holding the bytes of the run's items
\* in source order, and records it under L; the data declarations themselves
\* emit no global.
RECURSIVE C2_ItemsBytes(_)
C2_ItemsBytes(items) ==
    IF items = <<>> THEN <<>>
    ELSE LET it == Head(items)
             b == IF it.t = "IntegerDataItem" THEN << it.v - 256 * (it.v \div 256) >>
                  ELSE IF it.t = "StringDataItem" THEN it.s ELSE <<>>
         IN  b \o C2_ItemsBytes(Tail(items))

RECURSIVE C2_RunBytes(_, _)
C2_RunBytes(lo, hi) ==
    IF lo > hi THEN <<>>
    ELSE C2_ItemsBytes(ast[lo].dataList) \o C2_RunBytes(lo + 1, hi)

\* Statement i ends a run that label j opened.
C2_RunEnds(j, i) ==
    /\ j + 1 < i
    /\ IsLabel(j)
    /\ \A k \in (j + 1)..(i - 1) : IsData(k)
    /\ ~IsLabel(i) /\ ~IsData(i)
    /\ C2_RunBytes(j + 1, i - 1) # <<>>

C2_Step ==
    (pc = "pass1" /\ idx <= Len(ast)) =>
        /\ IsData(idx) =>
              (c'.globals = c.globals /\ c'.labeledData = c.labeledData)
        /\ \A j \in 1..Len(ast) :
              C2_RunEnds(j, idx) =>
                LET g == [name |-> ast[j].LabelName, init |-> C2_RunBytes(j + 1, idx - 1)]
                IN  /\ c'.globals = Append(c.globals, g)
                    /\ ast[j].LabelName \in DOMAIN c'.labeledData
                    /\ c'.labeledData[ast[j].LabelName] = Len(c'.globals)
                    /\ \A l \in DOMAIN c.labeledData :
                          l # ast[j].LabelName =>
                            (l \in DOMAIN c'.labeledData /\ c'.labeledData[l] = c.labeledData[l])

C3_Unterminated == { b \in 1..Len(c.blocks) : c.blocks[b].term = <<>> }

C3_OneOpenBlock ==
    /\ Cardinality(C3_Unterminated) <= 1
    /\ \A b \in C3_Unterminated : b = c.currentBlock
    /\ pc \in AfterPass2 =>
          \A b \in 1..Len(c.blocks) :
            /\ c.blocks[b].term # <<>>
            /\ c.blocks[b].term[1].op \in {"br", "unreachable"}

\* The close-off step has terminated the last of several blocks.
C3_Witness ==
    /\ pc = "hookup"
    /\ Len(c.blocks) >= 2
    /\ c.currentBlock = Len(c.blocks)
    /\ c.blocks[Len(c.blocks)].term = <<Unreachable>>
    /\ c.blocks[1].term = <<Br(2)>>

\* C4: with the three vectors naming three distinct labels that occur in the
\* source and are not claimed as data, after the hook-up the three target
\* blocks are set, each named after its own label, pairwise distinct, and the
\* Entry block branches to the reset block.
C4_VecLabel(a) == offsets[a].dataList[1].LabelName

C4_Pre ==
    /\ \A a \in VectorAddrs :
          /\ a \in DOMAIN offsets
          /\ offsets[a].kind = "DataWordStatement"
          /\ offsets[a].dataList[1].t = "LabelCall"
          /\ \E i \in 1..Len(ast) : IsLabel(i) /\ ast[i].LabelName = C4_VecLabel(a)
          /\ C4_VecLabel(a) \notin DOMAIN c.labeledData
    /\ Cardinality({ C4_VecLabel(a) : a \in VectorAddrs }) = 3

C4_EntryBlocks ==
    (pc \in AfterHookUp /\ C4_Pre) =>
        /\ c.nmiBlock # NoBlock /\ c.resetBlock # NoBlock /\ c.irqBlock # NoBlock
        /\ c.blocks[c.nmiBlock].name = C4_VecLabel(NmiAddr)
        /\ c.blocks[c.resetBlock].name = C4_VecLabel(ResetAddr)
        /\ c.blocks[c.irqBlock].name = C4_VecLabel(IrqAddr)
        /\ Cardinality({c.nmiBlock, c.resetBlock, c.irqBlock}) = 3
        /\ c.entry = <<Br(c.resetBlock)>>
        /\ c.entry[1].target \notin {c.nmiBlock, c.irqBlock}
        /\ ~InErrors(MissingBlockErrors)

C4_Witness == pc = "verify" /\ C4_Pre /\ c.resetBlock = 3

\* C5: no label name owns both a data global and a basic block.
C5_DataOrCode ==
    \A b \in 1..Len(c.blocks) : c.blocks[b].name \notin DOMAIN c.labeledData

\* Pass 2 has visited a label named twice in the source and claimed as data.
C5_Witness ==
    /\ pc = "hookup"
    /\ \E i, j \in 1..Len(ast) :
          /\ i < j /\ IsLabel(i) /\ IsLabel(j)
          /\ ast[i].LabelName = ast[j].LabelName
          /\ ast[i].LabelName \in DOMAIN c.labeledData

\* C6: once a resolver error, a missing-block error or a verification error
\* is recorded, no step writes the module to the output file.
FatalErrors == ResolverErrors \cup MissingBlockErrors \cup {"VerifyModule error"}

C6_NoWriteAfterFatal ==
    [][InErrors(FatalErrors) => (pc # "write" /\ fd' = fd)]_vars

\* A run has ended on a failed nmi lookup although the reset and irq blocks
\* were found.
C6_Witness ==
    /\ pc = "done"
    /\ InErrors(ResolverErrors)
    /\ c.resetBlock # NoBlock /\ c.irqBlock # NoBlock
    /\ fd = "none"

\* C7: when a target block is unset after pass 2, the hook-up step appends
\* one "missing ... entry point" error naming an unset vector and the run
\* ends: no branch is added to the Entry block, nothing is verified or
\* written, and no step follows.
C7_Unset ==
    { v \in {"nmi", "reset", "irq"} :
        \/ v = "nmi" /\ c.nmiBlock = NoBlock
        \/ v = "reset" /\ c.resetBlock = NoBlock
        \/ v = "irq" /\ c.irqBlock = NoBlock }

C7_Step ==
    /\ pc # "done"
    /\ (pc = "hookup" /\ C7_Unset # {}) =>
          /\ \E v \in C7_Unset :
                c' = [c EXCEPT !.Errors = Append(@, "missing " \o v \o " entry point")]
          /\ pc' = "done"
          /\ c'.entry = <<>>
          /\ fd' = fd

C7_MissingBlockEndsRun == [][C7_Step]_vars

\* The run ended because the reset label was claimed as data in pass 1.
C7_Witness ==
    /\ pc = "done"
    /\ c.Errors # <<>>
    /\ c.Errors[Len(c.Errors)] = "missing reset entry point"
    /\ c.resetLabelName \in DOMAIN c.labeledData
    /\ c.entry = <<>>

\* C8: in pass 2 every instruction statement appends exactly one "lacks
\* Compile() implementation" error naming its kind and changes nothing else,
\* and the traversal goes on: after pass 2 the errors are those of the
\* instruction statements, in source order.
C8_IsInstr(i) == ast[i].kind \notin {"LabeledStatement", "DataStatement", "DataWordStatement"}

RECURSIVE C8_Expected(_)
C8_Expected(i) ==
    IF i > Len(ast) THEN <<>>
    ELSE (IF C8_IsInstr(i)
          THEN << ast[i].kind \o " lacks Compile() implementation" >>
          ELSE <<>>) \o C8_Expected(i + 1)

C8_Step ==
    (pc = "pass2" /\ idx <= Len(ast) /\ C8_IsInstr(idx)) =>
        /\ c' = [c EXCEPT !.Errors =
                    Append(@, ast[idx].kind \o " lacks Compile() implementation")]
        /\ pc' = "pass2" /\ idx' = idx + 1

C8_StubErrors ==
    /\ [][C8_Step]_vars
    /\ [](pc = "hookup" => c.Errors = C8_Expected(1))

\* Three instruction statements of different kinds have been visited.
C8_Witness ==
    /\ pc = "hookup"
    /\ Len(ast) = 3
    /\ \A i \in 1..3 : C8_IsInstr(i)
    /\ ast[1].kind # ast[2].kind /\ ast[2].kind # ast[3].kind
    /\ Len(c.Errors) = 3

\* C9: in the flat walk every instruction statement appends either one
\* Instruction for it or one error for it, never both and never neither, and
\* the walk goes on after a failure: at every point the two lists together
\* hold one entry per instruction statement visited, each list in source
\* order.
C9_IsInstr(i) == fast[i].kind \notin {"AssignStatement", "LabeledStatement"}

C9_Step ==
    (pc = "flat" /\ fidx <= Len(fast) /\ C9_IsInstr(fidx)) =>
        \/ /\ Len(prog'.Instructions) = Len(prog.Instructions) + 1
           /\ SubSeq(prog'.Instructions, 1, Len(prog.Instructions)) = prog.Instructions
           /\ prog'.Instructions[Len(prog'.Instructions)].StatementAst = fast[fidx]
           /\ prog'.Errors = prog.Errors
        \/ /\ Len(prog'.Errors) = Len(prog.Errors) + 1
           /\ SubSeq(prog'.Errors, 1, Len(prog.Errors)) = prog.Errors
           /\ prog'.Errors[Len(prog'.Errors)].Line = fast[fidx].Line
           /\ prog'.Instructions = prog.Instructions

C9_Count ==
    pc = "flat" =>
        /\ Len(prog.Instructions) + Len(prog.Errors)
             = Cardinality({ i \in 1..(fidx - 1) : C9_IsInstr(i) })
        /\ \A i, j \in 1..Len(prog.Instructions) :
             i < j => prog.Instructions[i].StatementAst.Line
                        < prog.Instructions[j].StatementAst.Line
        /\ \A i, j \in 1..Len(prog.Errors) :
             i < j => prog.Errors[i].Line < prog.Errors[j].Line

C9_OneResultPerInstruction == [][C9_Step]_vars /\ []C9_Count

\* A walk of three instruction statements has ended; the first failed and
\* the two after it were selected.
C9_Witness ==
    /\ pc = "flat" /\ fidx = 4
    /\ \A i \in 1..3 : C9_IsInstr(i)
    /\ Len(prog.Errors) = 1 /\ prog.Errors[1].Line = 1
    /\ Len(prog.Instructions) = 2

\* C10: an implied (immediate) instruction whose mnemonic, lower-cased, is a
\* key of the implied (immediate) table is selected with the table's opcode
\* and size 1 (2); otherwise nothing is selected and the error carries the
\* line and the mnemonic as written. lda immediate is 0xa9, size 2, and lda
\* absolute,X is 0xbd, size 3.
C10_LowerOf ==
    [ A |-> "a", B |-> "b", C |-> "c", D |-> "d", E |-> "e", F |-> "f", G |-> "g",
      H |-> "h", I |-> "i", J |-> "j", K |-> "k", L |-> "l", M |-> "m", N |-> "n",
      O |-> "o", P |-> "p", Q |-> "q", R |-> "r", S |-> "s", T |-> "t", U |-> "u",
      V |-> "v", W |-> "w", X |-> "x", Y |-> "y", Z |-> "z" ]

RECURSIVE C10_Lower(_)
C10_Lower(text) ==
    IF text = <<>> THEN ""
    ELSE (IF Head(text) \in DOMAIN C10_LowerOf THEN C10_LowerOf[Head(text)] ELSE Head(text))
         \o C10_Lower(Tail(text))

C10_Result(s, table, size, fmt) ==
    IF C10_Lower(s.OpName) \in DOMAIN table
    THEN /\ prog.Instructions =
              << [StatementAst |-> s, OpCode |-> table[C10_Lower(s.OpName)], OpSize |-> size] >>
         /\ prog.Errors = <<>>
    ELSE /\ prog.Instructions = <<>>
         /\ prog.Errors = << [fmt |-> fmt, Line |-> s.Line, OpName |-> Str(s.OpName)] >>

C10_TableSelection ==
    (pc = "flat" /\ fidx = 2 /\ Len(fast) = 1) =>
        LET s == fast[1] IN
        /\ s.kind = "ImpliedInstruction" =>
              C10_Result(s, impliedOpcode, 1, "Line %d: Unrecognized implied instruction: %s")
        /\ s.kind = "ImmediateInstruction" =>
              C10_Result(s, immediateOpcode, 2, "Line %d: Unrecognized immediate instruction: %s")
        /\ (s.kind = "ImmediateInstruction" /\ C10_Lower(s.OpName) = "lda") =>
              (prog.Instructions[1].OpCode = 169 /\ prog.Instructions[1].OpSize = 2)
        /\ (s.kind = "AbsoluteWithLabelIndexedInstruction"
              /\ C10_Lower(s.OpName) = "lda" /\ C10_Lower(s.RegisterName) = "x") =>
              (prog.Instructions[1].OpCode = 189 /\ prog.Instructions[1].OpSize = 3)

\* A mixed-case lda immediate has been selected.
C10_Witness ==
    /\ pc = "flat" /\ fidx = 2 /\ Len(fast) = 1
    /\ fast[1].kind = "ImmediateInstruction"
    /\ fast[1].OpName = <<"L", "d", "A">>
    /\ Len(prog.Instructions) = 1
    /\ prog.Instructions[1].OpCode = 169

\* C11: an indexed-absolute instruction whose register, compared without
\* regard to case, is neither X nor Y fails with the register error whatever
\* its mnemonic; the unrecognized-instruction error is returned exactly when
\* the register is X or Y and the mnemonic is no key of that register's table.
C11_RegisterError(s) ==
    [fmt |-> "Line %d: Register argument must be X or Y", Line |-> s.Line, OpName |-> ""]

C11_Unrecognized(s, reg) ==
    [fmt |-> IF reg = "x" THEN "Line %d: Unrecognized absolute, X instruction: %s"
             ELSE "Line %d: Unrecognized absolute, Y instruction: %s",
     Line |-> s.Line, OpName |-> Str(s.OpName)]

C11_RegisterChecked ==
    (pc = "flat" /\ fidx = 2 /\ Len(fast) = 1
        /\ fast[1].kind = "AbsoluteWithLabelIndexedInstruction") =>
        LET s == fast[1]
            reg == C10_Lower(s.RegisterName)
            table == IF reg = "x" THEN absIndexedXOpcode ELSE absIndexedYOpcode
        IN  IF reg \notin {"x", "y"}
            THEN prog.Instructions = <<>> /\ prog.Errors = << C11_RegisterError(s) >>
            ELSE IF C10_Lower(s.OpName) \notin DOMAIN table
            THEN prog.Instructions = <<>> /\ prog.Errors = << C11_Unrecognized(s, reg) >>
            ELSE prog.Errors = <<>> /\ Len(prog.Instructions) = 1

\* A register z has been refused for a mnemonic that is a key of both tables.
C11_Witness ==
    /\ pc = "flat" /\ fidx = 2 /\ Len(fast) = 1
    /\ fast[1].kind = "AbsoluteWithLabelIndexedInstruction"
    /\ fast[1].RegisterName = <<"z">>
    /\ fast[1].OpName = <<"L", "D", "A">>
    /\ prog.Errors = << C11_RegisterError(fast[1]) >>

\* C12: in pass 1 a data declaration visited while no label owns a buffer
\* appends one "trashing data" warning for its offset and changes nothing
\* else of the Compilation.
C12_Step ==
    (pc = "pass1" /\ idx <= Len(ast) /\ IsData(idx) /\ c.currentLabel = "") =>
        /\ c'.Warnings = Append(c.Warnings, <<"trashing data at", idx - 1>>)
        /\ [c' EXCEPT !.Warnings = c.Warnings] = c

C12_TrashedDataOnlyWarns == [][C12_Step]_vars

\* Data carrying bytes, met before any label, has been trashed.
C12_Witness ==
    /\ pc = "pass1" /\ idx > 1
    /\ IsData(idx - 1) /\ ast[idx - 1].dataList # <<>>
    /\ c.currentLabel = ""
    /\ c.Warnings = << <<"trashing data at", idx - 2>> >>
    /\ c.currentValue = <<>> /\ c.globals = <<>>

\* C13: at every point of the flat walk Variables maps exactly the names
\* assigned so far, each to the value of its last assignment, and an
\* assignment changes neither Instructions nor Errors.
C13_Assigns(i, name) == fast[i].kind = "AssignStatement" /\ fast[i].VarName = name

C13_Names == { fast[i].VarName : i \in { k \in 1..(fidx - 1) : fast[k].kind = "AssignStatement" } }

C13_Last(name) ==
    CHOOSE i \in 1..(fidx - 1) :
        /\ C13_Assigns(i, name)
        /\ \A k \in (i + 1)..(fidx - 1) : ~C13_Assigns(k, name)

C13_Inv ==
    pc = "flat" =>
        /\ DOMAIN prog.Variables = C13_Names
        /\ \A name \in C13_Names : prog.Variables[name] = fast[C13_Last(name)].Value

C13_Step ==
    (pc = "flat" /\ fidx <= Len(fast) /\ fast[fidx].kind = "AssignStatement") =>
        (prog'.Instructions = prog.Instructions /\ prog'.Errors = prog.Errors)

C13_LastAssignmentWins == [][C13_Step]_vars /\ []C13_Inv

\* x was assigned 2, then y, then x again: x holds the later value.
C13_Witness ==
    /\ pc = "flat" /\ fidx = 4
    /\ C13_Assigns(1, "x") /\ fast[1].Value = 2
    /\ C13_Assigns(2, "y")
    /\ C13_Assigns(3, "x") /\ fast[3].Value = 1
    /\ prog.Variables["x"] = 1 /\ prog.Variables["y"] = 1

\* C14: in pass 1, once a statement that is neither data nor label has been
\* visited no buffer is open, so a data declaration that follows it is
\* trashed with a warning and reaches no label's buffer.
C14_OtherStmt(i) == ~IsLabel(i) /\ ~IsData(i)

C14_ClosedAfterOtherStatement ==
    (pc = "pass1" /\ idx > 1) =>
        /\ C14_OtherStmt(idx - 1) => c.currentLabel = ""
        /\ (idx > 2 /\ IsData(idx - 1) /\ C14_OtherStmt(idx - 2)) =>
              (c.currentValue = <<>> /\ c.Warnings # <<>>)

\* C15: in pass 2 a label that owns a data global opens no block and leaves
\* the current block as it is; any other label opens one block, and the only
\* branch emitted is from the block that was current before the step into
\* the new block. A block recorded as the nmi or irq target is closed by
\* unreachable at once, no block is current after it, and it never holds a
\* branch; a block recorded as the reset target stays open and current.
C15_IsNmi(name) == name = c.nmiLabelName
C15_IsReset(name) == name # c.nmiLabelName /\ name = c.resetLabelName
C15_IsIrq(name) ==
    name # c.nmiLabelName /\ name # c.resetLabelName /\ name = c.irqLabelName

C15_Step ==
    (pc = "pass2" /\ idx <= Len(ast) /\ IsLabel(idx)) =>
        LET name == ast[idx].LabelName
            n == Len(c.blocks)
        IN  IF name \in DOMAIN c.labeledData
            THEN c'.blocks = c.blocks /\ c'.currentBlock = c.currentBlock
            ELSE /\ Len(c'.blocks) = n + 1
                 /\ c'.blocks[n + 1].name = name
                 /\ \A b \in 1..n :
                       IF b = c.currentBlock
                       THEN c'.blocks[b] =
                              [c.blocks[b] EXCEPT !.term = Append(@, Br(n + 1))]
                       ELSE c'.blocks[b] = c.blocks[b]
                 /\ IF C15_IsNmi(name) \/ C15_IsIrq(name)
                    THEN /\ c'.blocks[n + 1].term = <<Unreachable>>
                         /\ c'.currentBlock = NoBlock
                         /\ C15_IsNmi(name) => c'.nmiBlock = n + 1
                         /\ C15_IsIrq(name) => c'.irqBlock = n + 1
                    ELSE /\ c'.blocks[n + 1].term = <<>>
                         /\ c'.currentBlock = n + 1
                         /\ C15_IsReset(name) => c'.resetBlock = n + 1

C15_NoBranchFromVector ==
    \A b \in 1..Len(c.blocks) :
        (C15_IsNmi(c.blocks[b].name) \/ C15_IsIrq(c.blocks[b].name)) =>
            c.blocks[b].term = <<Unreachable>>

C16_OneTerminator ==
    /\ Len(c.entry) <= 1
    /\ \A b \in 1..Len(c.blocks) : Len(c.blocks[b].term) <= 1
    /\ pc \in {"verify", "jit", "create", "write", "close"} =>
          /\ Len(c.entry) = 1
          /\ \A b \in 1..Len(c.blocks) : Len(c.blocks[b].term) = 1

\* Verification is reached with the reset block closed by its fall-through
\* branch and the two blocks after it by the immediate unreachable.
C16_Witness ==
    /\ pc = "verify"
    /\ Len(c.blocks) = 3
    /\ c.resetBlock = 1
    /\ c.blocks[1].term = <<Br(2)>>
    /\ c.blocks[2].term = <<Unreachable>>
    /\ c.blocks[3].term = <<Unreachable>>
    /\ c.entry = <<Br(1)>>

\* C17: when pass 1 has finished, a label whose open buffer holds at least
\* one byte has its data global, holding those bytes, in the label-to-global
\* map.
C17_NoOpenBufferAfterPass1 ==
    (pc # "pass1" /\ pc # "flat" /\ c.currentLabel # "" /\ c.currentValue # <<>>) =>
        /\ c.currentLabel \in DOMAIN c.labeledData
        /\ c.globals[c.labeledData[c.currentLabel]].init = c.currentValue

\* C18: after pass 2 every vector whose label names a block of the function
\* has its target block set, and a run in which all three do does not end on
\* a missing-entry-point error.
C18_HasBlock(name) == \E b \in 1..Len(c.blocks) : c.blocks[b].name = name

C18_SharedLabelBlocksSet ==
    pc \in AfterPass2 =>
        /\ C18_HasBlock(c.nmiLabelName) => c.nmiBlock # NoBlock
        /\ C18_HasBlock(c.resetLabelName) => c.resetBlock # NoBlock
        /\ C18_HasBlock(c.irqLabelName) => c.irqBlock # NoBlock
        /\ (C18_HasBlock(c.nmiLabelName) /\ C18_HasBlock(c.resetLabelName)
              /\ C18_HasBlock(c.irqLabelName)) => ~InErrors(MissingBlockErrors)

====
